---- MODULE Spec2Model ----
(***************************************************************************)
(* Viewport engine of the infinite canvas (DOMCanvasManager) as a state    *)
(* machine.  Every public method of the engine is one atomic action: the   *)
(* code is single-threaded and each call runs to completion, nested calls  *)
(* and listener notifications included.                                    *)
(*                                                                         *)
(* Numbers.  A JavaScript number is modelled as a pair <<n, d>>:           *)
(*   d > 0, gcd(n, d) = 1   the finite value n/d (exact arithmetic)        *)
(*   <<1, 0>>, <<-1, 0>>    +Infinity, -Infinity                           *)
(*   <<0, 0>>               NaN                                            *)
(* so that division by zero, comparisons with NaN and NaN !== NaN behave   *)
(* as they do in the program.  Rounding of finite values and the sign of   *)
(* zero are not modelled.                                                  *)
(***************************************************************************)
EXTENDS Integers, Sequences, FiniteSets, TLC

----------------------------------------------------------------------------
(* Arithmetic of JavaScript numbers *)

Abs(i) == IF i < 0 THEN -i ELSE i

Sgn(i) == IF i < 0 THEN -1 ELSE IF i > 0 THEN 1 ELSE 0

RECURSIVE GCD(_, _)
GCD(a, b) == IF b = 0 THEN a ELSE GCD(b, a % b)

\* the finite number n/d in lowest terms, d # 0
Q(n, d) ==
    LET g == GCD(Abs(n), Abs(d))
        s == IF d < 0 THEN -1 ELSE 1
    IN  <<(s * n) \div g, (s * d) \div g>>

\* the integer i
Num(i) == <<i, 1>>

NaN  == <<0, 0>>
PInf == <<1, 0>>
NInf == <<-1, 0>>

\* an absent optional argument or an absent field of a Partial<ViewportState>
None == <<>>

IsNaN(a)    == a = NaN
IsInf(a)    == a[2] = 0 /\ a[1] # 0
IsFinite(a) == a[2] # 0
IsZero(a)   == a[2] # 0 /\ a[1] = 0

\* a + b
Add(a, b) ==
    IF IsNaN(a) \/ IsNaN(b) THEN NaN
    ELSE IF IsInf(a) THEN (IF IsInf(b) /\ b # a THEN NaN ELSE a)
    ELSE IF IsInf(b) THEN b
    ELSE LET g == GCD(a[2], b[2])
         IN  Q(a[1] * (b[2] \div g) + b[1] * (a[2] \div g),
               (a[2] \div g) * b[2])

Neg(a) == <<-a[1], a[2]>>

\* a - b
Sub(a, b) == Add(a, Neg(b))

\* a * b
Mul(a, b) ==
    IF IsNaN(a) \/ IsNaN(b) THEN NaN
    ELSE IF IsInf(a) \/ IsInf(b)
         THEN (IF IsZero(a) \/ IsZero(b) THEN NaN
               ELSE <<Sgn(a[1]) * Sgn(b[1]), 0>>)
    ELSE LET g1 == GCD(Abs(a[1]), b[2])
             g2 == GCD(Abs(b[1]), a[2])
         IN  Q((a[1] \div g1) * (b[1] \div g2),
               (a[2] \div g2) * (b[2] \div g1))

\* a / b
Div(a, b) ==
    IF IsNaN(a) \/ IsNaN(b) THEN NaN
    ELSE IF IsInf(a)
         THEN (IF IsInf(b) THEN NaN
               ELSE <<a[1] * (IF b[1] < 0 THEN -1 ELSE 1), 0>>)
    ELSE IF IsInf(b) THEN Num(0)
    ELSE IF IsZero(b) THEN (IF IsZero(a) THEN NaN ELSE <<Sgn(a[1]), 0>>)
    ELSE LET g1 == GCD(Abs(a[1]), Abs(b[1]))
             g2 == GCD(b[2], a[2])
         IN  Q((a[1] \div g1) * (b[2] \div g2),
               (a[2] \div g2) * (b[1] \div g1))

\* n1/d1 < n2/d2 for d1, d2 > 0, by comparing integer parts and then the
\* reciprocals of the fractional parts
RECURSIVE LtFrac(_, _, _, _)
LtFrac(n1, d1, n2, d2) ==
    LET q1 == n1 \div d1
        q2 == n2 \div d2
        r1 == n1 % d1
        r2 == n2 % d2
    IN  IF q1 # q2 THEN q1 < q2
        ELSE IF r2 = 0 THEN FALSE
        ELSE IF r1 = 0 THEN TRUE
        ELSE LtFrac(d2, r2, d1, r1)

\* a < b (false when either is NaN)
Lt(a, b) ==
    IF IsNaN(a) \/ IsNaN(b) THEN FALSE
    ELSE IF a = b THEN FALSE
    ELSE IF a = NInf \/ b = PInf THEN TRUE
    ELSE IF a = PInf \/ b = NInf THEN FALSE
    ELSE LtFrac(a[1], a[2], b[1], b[2])

\* a > b, a <= b, a >= b
Gt(a, b) == Lt(b, a)
Le(a, b) == ~IsNaN(a) /\ ~IsNaN(b) /\ ~Lt(b, a)
Ge(a, b) == Le(b, a)

\* a !== b (NaN differs from everything, itself included)
StrictNeq(a, b) == IsNaN(a) \/ IsNaN(b) \/ a # b

\* Math.min(a, b)
MathMin(a, b) ==
    IF IsNaN(a) \/ IsNaN(b) THEN NaN
    ELSE IF Lt(b, a) THEN b ELSE a

\* a Point {x, y} is the pair <<x, y>> of numbers
Point(px, py) == <<px, py>>
PX(p) == p[1]
PY(p) == p[2]

----------------------------------------------------------------------------
(* Bounds and inputs *)

\* number of calls explored from the initial state
MaxSteps == 3

\* number of calls explored by the page specification
MaxDragSteps == 4

\* listener functions that clients may register
Listeners == {1, 2}

\* listener functions that throw whenever they are invoked
Throwers == {1}

\* subscriptions already made when exploration starts
InitialCallbacks == {<<>>, <<1>>, <<1, 2>>}

\* options arguments of the constructor (None: key absent)
OptionsInputs == {[minScale |-> None, maxScale |-> None],
                  [minScale |-> Q(1, 2), maxScale |-> Num(4)]}

\* container sizes reported by getBoundingClientRect()
RectInputs == {[width |-> Num(800), height |-> Num(600)],
               [width |-> Num(40), height |-> Num(40)]}

\* arguments of setViewport
PartialInputs ==
    {[x |-> None, y |-> None, scale |-> Q(1, 20)],
     [x |-> None, y |-> None, scale |-> Num(2)],
     [x |-> None, y |-> None, scale |-> Num(20)],
     [x |-> Num(100), y |-> None, scale |-> None]}

\* the options the canvas page passes to the engine
PageOptions == [minScale |-> Q(1, 10), maxScale |-> Num(5)]

\* the entities prop of the drag hook: id and world position, in array order
InitialEntities ==
    << [id |-> "a", position |-> Point(Num(100), Num(100))],
       [id |-> "b", position |-> Point(Num(0), Num(50))] >>

\* entity ids handed to handleDragStart and handleEntityMove ("z" is unknown)
EntityIdInputs == {"a", "b", "z"}

\* client positions of pointer events
PointerInputs == {Point(Num(100), Num(100)), Point(Num(150), Num(130)),
                  Point(Num(170), Num(130))}

\* option objects the gesture handler's engine is constructed with
GestureOptionInputs ==
    { [k \in {} |-> TRUE],
      [enablePan |-> FALSE],
      [enableZoom |-> FALSE],
      [minScale |-> Q(1, 10), maxScale |-> Num(5)] }

\* pointer events: pointerId, button and client position
PointerIdInputs == {1, 2}
ButtonInputs == {0, 2}
PointerPosInputs == {Point(Num(100), Num(100)), Point(Num(120), Num(90))}

\* wheel events: deltaX, deltaY, deltaMode and client position
WheelInputs ==
    { [deltaX |-> Num(dx), deltaY |-> Num(w[1]), deltaMode |-> w[2],
       pos |-> Point(Num(100), Num(50))] :
        dx \in {0, 30},
        w \in {<<0, 0>>, <<50, 0>>, <<-50, 0>>, <<200, 0>>, <<3, 1>>,
               <<-1, 2>>} }

\* client positions of touch points (pairwise distances are multiples of 50)
TouchPointInputs ==
    {Point(Num(0), Num(0)), Point(Num(30), Num(40)), Point(Num(60), Num(80)),
     Point(Num(90), Num(120))}

\* the cursor the host page may have set on document.body before any drag
HostCursors == {"", "wait"}

\* positions handed to handleEntityMove
PositionInputs == {Point(Num(150), Num(130))}

\* pans made by the gesture layer while the page is shown
PagePanInputs == {Point(Num(20), Num(0))}

\* wheel zooms made by the gesture layer while the page is shown: scaleDelta
\* and the pointer position relative to the container
PageZoomInputs == {<<Q(1, 10), Point(Num(0), Num(0))>>}

\* writes a client makes to a viewport object it holds: field and value
WriteInputs == {<<"x", Num(7)>>, <<"scale", Num(50)>>}

\* arguments of panBy
DeltaInputs == {Point(Num(10), Num(-5)), Point(Num(-3), Num(7))}

\* scale arguments of zoomTo
ScaleInputs == {Num(2), Num(20)}

\* scaleDelta arguments of zoomBy
ScaleDeltaInputs == {Q(1, 2), Q(-1, 2)}

\* center arguments of zoomTo and zoomBy (None: argument omitted)
CenterInputs == {None, Point(Num(0), Num(0)), Point(Num(100), Num(50))}

\* worldPoint arguments of centerOn
WorldPointInputs == {Point(Num(200), Num(100))}

\* worldBounds arguments of fit
BoundsInputs ==
    {[minX |-> Num(0), minY |-> Num(0), maxX |-> Num(400), maxY |-> Num(200)],
     [minX |-> Num(0), minY |-> Num(0), maxX |-> Num(40), maxY |-> Num(20)],
     [minX |-> Num(0), minY |-> Num(0), maxX |-> Num(0), maxY |-> Num(200)],
     [minX |-> Num(100), minY |-> Num(100), maxX |-> Num(100), maxY |-> Num(100)]}

\* padding arguments of fit (20 is the default)
PaddingInputs == {Num(20)}

----------------------------------------------------------------------------
(* State *)

VARIABLES
    viewport,         \* this.state.viewport: [x, y, scale]
    options,          \* this.options: [minScale, maxScale]
    container,        \* this.state.container # null
    viewportElement,  \* this.state.viewportElement # null
    rect,             \* what container.getBoundingClientRect() reports
    transform,        \* translate/scale last written to the viewport element
    callbacks,        \* this.viewportChangeCallbacks, in insertion order
    op,               \* the last call: its name and arguments
    pre,              \* getViewport() just before the last call
    preCallbacks,     \* the listeners registered just before the last call
    log,              \* listener invocations made during the last call
    raised,           \* whether the last call ended by throwing to its caller
    held,             \* the object a client holds: "none", "copy" (its own
                      \* object) or "alias" (the engine's viewport object)
    steps,            \* number of calls made so far
    dragState,        \* useDragSystem: [isDragging, draggedEntityId, dragOffset, startPosition]
    entities,         \* the page's entity array
    localViewport,    \* the page's copy of the viewport, passed to useDragSystem
    bodyStyle,        \* document.body.style: [userSelect, webkitUserSelect, cursor]
    event,            \* the event handed to the last drag handler
    moves,            \* onEntityMove invocations made during the last drag handler
    styleAtStart,     \* document.body.style just before the handleDragStart that
                      \* opened the drag session
    gesture,          \* DOMPanZoomHandler and its surroundings: [pointerId,
                      \* lastPointerPosition, lastTouchDistance, isDragging
                      \* (the manager's), capture (the pointer the container
                      \* has captured), touches (touch points down), event
                      \* (the last event handed to it), calls (engine calls
                      \* made by the last handler), pointers (the pointer
                      \* ids of the touch points, where the touch points
                      \* are followed as pointers too), registered (the
                      \* number of listener sets attach() has added to
                      \* the container and detach() has not removed),
                      \* stored (this.listeners holds a listener set)]
    panOrigin         \* the pan gesture in progress or last ended, with no
                      \* other viewport mutation since its pointer-down:
                      \* <<position of the pointer-down, viewport at the
                      \* pointer-down>>, or <<>>

dragVars == <<dragState, entities, localViewport, bodyStyle, event, moves,
              styleAtStart>>

gestureVars == <<gesture, panOrigin>>

vars == <<viewport, options, container, viewportElement, rect, transform,
          callbacks, op, pre, preCallbacks, log, raised, held, steps,
          dragState, entities, localViewport, bodyStyle, event, moves,
          styleAtStart, gesture, panOrigin>>

----------------------------------------------------------------------------
(* The engine's methods, as functions of the manager's mutable part        *)
(* m = [viewport, transform, log, exc, throwers, alias]:                   *)
(*   log       the listener invocations of the call in progress            *)
(*   exc       an exception is propagating out of the call                 *)
(*   throwers  the listeners that throw when invoked                       *)
(*   alias     the object a client holds is this.state.viewport itself     *)

\* the defaults of the constructor
DefaultOptions == [minScale |-> Q(1, 10), maxScale |-> Num(10)]

\* this.options as the constructor builds it: the defaults, overridden by
\* the keys the caller gives
ConstructOptions(given) ==
    [minScale |-> IF given.minScale = None THEN DefaultOptions.minScale
                  ELSE given.minScale,
     maxScale |-> IF given.maxScale = None THEN DefaultOptions.maxScale
                  ELSE given.maxScale]

\* the initial viewport of the constructor
InitialViewport == [x |-> Num(0), y |-> Num(0), scale |-> Num(1)]

\* getViewport(): a copy of the stored viewport
getViewport(m) == m.viewport

\* screenToWorld under viewport v
screenToWorld(v, screenPoint) ==
    Point(Div(Sub(PX(screenPoint), v.x), v.scale),
          Div(Sub(PY(screenPoint), v.y), v.scale))

\* worldToScreen under viewport v
worldToScreen(v, worldPoint) ==
    Point(Add(Mul(PX(worldPoint), v.scale), v.x),
          Add(Mul(PY(worldPoint), v.scale), v.y))

\* applyTransform(): writes the stored viewport to the viewport element
\* (background type is 'none' by default: no background element)
applyTransform(m) ==
    IF ~viewportElement THEN m
    ELSE [m EXCEPT !.transform = m.viewport]

\* the invocation of callbacks[i] with snapshot v
Invocation(m, i, v) ==
    [cb |-> callbacks[i], snapshot |-> v, threw |-> callbacks[i] \in m.throwers]

\* notifyViewportChange without the try/catch around the callback: the first
\* exception ends the loop and propagates
notifyViewportChangeUncaught(m) ==
    LET currentViewport == getViewport(m)
        faulty == {i \in 1..Len(callbacks) : callbacks[i] \in m.throwers}
        last == IF faulty = {} THEN Len(callbacks)
                ELSE CHOOSE i \in faulty : \A j \in faulty : i <= j
    IN  [m EXCEPT !.log = m.log \o
                      [i \in 1..last |-> Invocation(m, i, currentViewport)],
                  !.exc = faulty # {}]

\* notifyViewportChange(): one snapshot, handed to each callback in order;
\* an exception thrown by a callback is caught
notifyViewportChange(m) ==
    LET currentViewport == getViewport(m)
    IN  [m EXCEPT !.log = m.log \o
            [i \in 1..Len(callbacks) |-> Invocation(m, i, currentViewport)]]

\* the scale clamp of setViewport
ClampScale(s) ==
    LET s1 == IF Lt(s, options.minScale) THEN options.minScale ELSE s
    IN  IF Gt(s1, options.maxScale) THEN options.maxScale ELSE s1

\* the change test of setViewport
ViewportChanged(old, new) ==
    \/ StrictNeq(old.x, new.x)
    \/ StrictNeq(old.y, new.y)
    \/ StrictNeq(old.scale, new.scale)

\* setViewport with the listeners notified before the scale is clamped
setViewportNotifyBeforeClamp(m, partial) ==
    LET oldViewport == m.viewport
        merged == [x     |-> IF partial.x = None THEN m.viewport.x ELSE partial.x,
                   y     |-> IF partial.y = None THEN m.viewport.y ELSE partial.y,
                   scale |-> IF partial.scale = None THEN m.viewport.scale
                             ELSE partial.scale]
        m0 == [m EXCEPT !.viewport = merged, !.alias = FALSE]
        m1 == IF ViewportChanged(oldViewport, merged)
              THEN notifyViewportChange(m0)
              ELSE m0
    IN  applyTransform([m1 EXCEPT !.viewport.scale = ClampScale(merged.scale)])

setViewport(m, partial) ==
    LET oldViewport == m.viewport
        merged == [x     |-> IF partial.x = None THEN m.viewport.x ELSE partial.x,
                   y     |-> IF partial.y = None THEN m.viewport.y ELSE partial.y,
                   scale |-> IF partial.scale = None THEN m.viewport.scale
                             ELSE partial.scale]
        clamped == [merged EXCEPT !.scale = ClampScale(merged.scale)]
        \* this.state.viewport is a new object from here on
        m1 == applyTransform([m EXCEPT !.viewport = clamped, !.alias = FALSE])
    IN  IF ViewportChanged(oldViewport, m1.viewport)
        THEN notifyViewportChange(m1)
        ELSE m1

\* a pan that moves the offset to the deltas instead of by them
panByAbsolute(m, deltaX, deltaY) ==
    setViewport(m, [x |-> deltaX, y |-> deltaY, scale |-> None])

panBy(m, deltaX, deltaY) ==
    setViewport(m, [x     |-> Add(m.viewport.x, deltaX),
                    y     |-> Add(m.viewport.y, deltaY),
                    scale |-> None])

\* the centre of the container's bounding rectangle
RectCenter == Point(Div(rect.width, Num(2)), Div(rect.height, Num(2)))

zoomTo(m, scale, center) ==
    LET c == IF center = None /\ container THEN RectCenter ELSE center
    IN  IF c # None
        THEN LET worldPoint == screenToWorld(m.viewport, c)
                 \* this.state.viewport.scale = scale
                 m1 == [m EXCEPT !.viewport.scale = scale]
                 newScreenPoint == worldToScreen(m1.viewport, worldPoint)
             IN  setViewport(m1,
                    [scale |-> scale,
                     x |-> Add(m1.viewport.x, Sub(PX(c), PX(newScreenPoint))),
                     y |-> Add(m1.viewport.y, Sub(PY(c), PY(newScreenPoint)))])
        ELSE setViewport(m, [x |-> None, y |-> None, scale |-> scale])

\* zoomBy without the early exit at the limits
zoomByWithoutLimitExit(m, scaleDelta, center) ==
    zoomTo(m, Mul(m.viewport.scale, Add(Num(1), scaleDelta)), center)

zoomBy(m, scaleDelta, center) ==
    LET currentScale == m.viewport.scale
        newScale == Mul(currentScale, Add(Num(1), scaleDelta))
    IN  IF \/ Ge(currentScale, options.maxScale) /\ Gt(scaleDelta, Num(0))
           \/ Le(currentScale, options.minScale) /\ Lt(scaleDelta, Num(0))
        THEN m
        ELSE zoomTo(m, newScale, center)

centerOn(m, worldPoint) ==
    IF ~container THEN m
    ELSE LET centerX == Div(rect.width, Num(2))
             centerY == Div(rect.height, Num(2))
             screenPoint == worldToScreen(m.viewport, worldPoint)
         IN  setViewport(m,
                [x |-> Add(m.viewport.x, Sub(centerX, PX(screenPoint))),
                 y |-> Add(m.viewport.y, Sub(centerY, PY(screenPoint))),
                 scale |-> None])

fit(m, worldBounds, padding) ==
    IF ~container THEN m
    ELSE LET containerWidth  == Sub(rect.width, Mul(Num(2), padding))
             containerHeight == Sub(rect.height, Mul(Num(2), padding))
             boundsWidth  == Sub(worldBounds.maxX, worldBounds.minX)
             boundsHeight == Sub(worldBounds.maxY, worldBounds.minY)
             scaleX == Div(containerWidth, boundsWidth)
             scaleY == Div(containerHeight, boundsHeight)
             scale  == MathMin(scaleX, scaleY)
             centerX == Div(Add(worldBounds.minX, worldBounds.maxX), Num(2))
             centerY == Div(Add(worldBounds.minY, worldBounds.maxY), Num(2))
             m1 == setViewport(m, [x |-> None, y |-> None, scale |-> scale])
         IN  IF m1.exc THEN m1
             ELSE centerOn(m1, Point(centerX, centerY))

reset(m) == setViewport(m, InitialViewport)

----------------------------------------------------------------------------
(* Actions: one call of a public method each *)

----------------------------------------------------------------------------
(* The drag hook and the page's entity store, as functions of              *)
(* h = [dragState, entities, bodyStyle, event, moves]                      *)

\* draggedEntityId: null
NoEntity == "null"

\* useState's initial drag state
InitialDragState ==
    [isDragging |-> FALSE, draggedEntityId |-> NoEntity,
     dragOffset |-> Point(Num(0), Num(0)),
     startPosition |-> Point(Num(0), Num(0))]

\* document.body.style with no override, and during a drag
NoStyle == [userSelect |-> "", webkitUserSelect |-> "", cursor |-> ""]
DragStyle == [userSelect |-> "none", webkitUserSelect |-> "none",
              cursor |-> "grabbing"]

\* an event nobody has called preventDefault or stopPropagation on
FreshEvent == [defaultPrevented |-> FALSE, propagationStopped |-> FALSE]

\* findIndex(e => e.id === entityId): -1 when there is none
FindIndex(es, entityId) ==
    IF \E i \in 1..Len(es) : es[i].id = entityId
    THEN CHOOSE i \in 1..Len(es) :
            /\ es[i].id = entityId
            /\ \A j \in 1..(i - 1) : es[j].id # entityId
    ELSE -1

\* the page's handleEntityMove: the functional update of the entity array
handleEntityMove(es, entityId, newPosition) ==
    LET entityIndex == FindIndex(es, entityId)
    IN  IF entityIndex = -1 THEN es
        ELSE IF /\ ~StrictNeq(PX(es[entityIndex].position), PX(newPosition))
                /\ ~StrictNeq(PY(es[entityIndex].position), PY(newPosition))
             THEN es
             ELSE [es EXCEPT ![entityIndex].position = newPosition]

\* the hook's screenToWorld, under the viewport prop v
hookScreenToWorld(v, screenPoint) ==
    Point(Div(Sub(PX(screenPoint), v.x), v.scale),
          Div(Sub(PY(screenPoint), v.y), v.scale))

\* handleDragStart that suppresses the event before looking the entity up
handleDragStartEager(h, entityId, mousePos, v) ==
    LET i == FindIndex(h.entities, entityId)
        h1 == [h EXCEPT !.event = [defaultPrevented |-> TRUE,
                                   propagationStopped |-> TRUE]]
    IN  IF i = -1 THEN h1
        ELSE [h1 EXCEPT
                !.dragState =
                    [isDragging |-> TRUE, draggedEntityId |-> entityId,
                     dragOffset |->
                         Point(Sub(PX(mousePos),
                                   PX(worldToScreen(v, h.entities[i].position))),
                               Sub(PY(mousePos),
                                   PY(worldToScreen(v, h.entities[i].position)))),
                     startPosition |-> h.entities[i].position],
                !.bodyStyle = DragStyle]

\* handleDragStart(entityId, event) with the event at mousePos and the
\* viewport prop v
handleDragStart(h, entityId, mousePos, v) ==
    LET i == FindIndex(h.entities, entityId)
    IN  IF i = -1 THEN h
        ELSE LET entity == h.entities[i]
                 entityScreenPos ==
                     Point(Add(Mul(PX(entity.position), v.scale), v.x),
                           Add(Mul(PY(entity.position), v.scale), v.y))
                 offset == Point(Sub(PX(mousePos), PX(entityScreenPos)),
                                 Sub(PY(mousePos), PY(entityScreenPos)))
             IN  [h EXCEPT
                    !.event = [defaultPrevented |-> TRUE,
                               propagationStopped |-> TRUE],
                    !.dragState =
                        [isDragging |-> TRUE, draggedEntityId |-> entityId,
                         dragOffset |-> offset,
                         startPosition |-> entity.position],
                    !.bodyStyle = DragStyle]

\* handleDragMove without the test for an active session
handleDragMoveUnguarded(h, mousePos, v) ==
    LET newScreenPos ==
            Point(Sub(PX(mousePos), PX(h.dragState.dragOffset)),
                  Sub(PY(mousePos), PY(h.dragState.dragOffset)))
        newWorldPos == hookScreenToWorld(v, newScreenPos)
        id == h.dragState.draggedEntityId
    IN  [h EXCEPT
           !.event = [defaultPrevented |-> TRUE, propagationStopped |-> TRUE],
           !.moves = Append(h.moves, [id |-> id, position |-> newWorldPos]),
           !.entities = handleEntityMove(h.entities, id, newWorldPos)]

\* handleDragMove that reports the move for the first entity of the array
handleDragMoveFirst(h, mousePos, v) ==
    IF ~h.dragState.isDragging \/ h.dragState.draggedEntityId = NoEntity
    THEN h
    ELSE LET newScreenPos ==
                 Point(Sub(PX(mousePos), PX(h.dragState.dragOffset)),
                       Sub(PY(mousePos), PY(h.dragState.dragOffset)))
             newWorldPos == hookScreenToWorld(v, newScreenPos)
             id == h.entities[1].id
         IN  [h EXCEPT
                !.event = [defaultPrevented |-> TRUE,
                           propagationStopped |-> TRUE],
                !.moves = Append(h.moves,
                                 [id |-> id, position |-> newWorldPos]),
                !.entities = handleEntityMove(h.entities, id, newWorldPos)]

\* handleDragMove(event) with the event at mousePos and the viewport prop v;
\* onEntityMove is the page's handleEntityMove
handleDragMove(h, mousePos, v) ==
    IF ~h.dragState.isDragging \/ h.dragState.draggedEntityId = NoEntity
    THEN h
    ELSE LET newScreenPos ==
                 Point(Sub(PX(mousePos), PX(h.dragState.dragOffset)),
                       Sub(PY(mousePos), PY(h.dragState.dragOffset)))
             newWorldPos == hookScreenToWorld(v, newScreenPos)
             id == h.dragState.draggedEntityId
         IN  [h EXCEPT
                !.event = [defaultPrevented |-> TRUE,
                           propagationStopped |-> TRUE],
                !.moves = Append(h.moves,
                                 [id |-> id, position |-> newWorldPos]),
                !.entities = handleEntityMove(h.entities, id, newWorldPos)]

\* handleDragEnd()
handleDragEnd(h) ==
    IF ~h.dragState.isDragging THEN h
    ELSE [h EXCEPT !.bodyStyle = NoStyle, !.dragState = InitialDragState]

----------------------------------------------------------------------------
(* The gesture handler, as functions of r = [g, m]: g its own fields and    *)
(* surroundings (the gesture variable), m the manager's mutable part        *)

\* pointerId: null
NoPointer == -1

\* the handler after construction, no pointer captured, no touch down
InitialGesture ==
    [pointerId |-> NoPointer, lastPointerPosition |-> None,
     lastTouchDistance |-> None, isDragging |-> FALSE, capture |-> NoPointer,
     touches |-> <<>>, pointers |-> <<>>, event |-> FreshEvent,
     calls |-> <<>>, registered |-> 0, stored |-> FALSE]

\* attach(): a new set of bound listeners is added to the container and
\* replaces the set held in this.listeners
attach(g) ==
    IF ~container THEN g
    ELSE [g EXCEPT !.registered = @ + 1, !.stored = TRUE]

\* detach(): the set held in this.listeners is removed from the container
\* and this.listeners is cleared
detach(g) ==
    IF ~container THEN g
    ELSE [g EXCEPT !.registered = IF g.stored THEN @ - 1 ELSE @,
                   !.stored = FALSE]

\* left and top of container.getBoundingClientRect()
RectOrigin == Point(Num(0), Num(0))

\* Math.abs and Math.sign
MathAbs(a) == <<Abs(a[1]), a[2]>>
MathSign(a) == IF IsNaN(a) THEN NaN ELSE Num(Sgn(a[1]))

\* Math.sqrt on the squares of rationals
MathSqrt(a) ==
    IF IsNaN(a) \/ Lt(a, Num(0)) THEN NaN
    ELSE IF IsInf(a) THEN PInf
    ELSE Q(CHOOSE r \in 0..a[1] : r * r = a[1],
           CHOOSE r \in 1..a[2] : r * r = a[2])

\* handlePointerDown that takes any button
handlePointerDownAnyButton(r, ev) ==
    IF ~options.enablePan THEN r
    ELSE IF r.g.pointerId # NoPointer THEN r
    ELSE [r EXCEPT !.g.pointerId = ev.pointerId,
                   !.g.lastPointerPosition = ev.pos,
                   !.g.isDragging = TRUE,
                   !.g.capture = IF container THEN ev.pointerId ELSE @,
                   !.g.event.defaultPrevented = TRUE]

\* handlePointerDown(event)
handlePointerDown(r, ev) ==
    IF ~options.enablePan \/ ev.button # 0 THEN r
    ELSE IF r.g.pointerId # NoPointer THEN r
    ELSE [r EXCEPT !.g.pointerId = ev.pointerId,
                   !.g.lastPointerPosition = ev.pos,
                   \* this.manager.setDragging(true)
                   !.g.isDragging = TRUE,
                   !.g.capture = IF container THEN ev.pointerId ELSE @,
                   !.g.event.defaultPrevented = TRUE]

\* handlePointerMove that keeps the position of the pointer-down as the last
\* position
handlePointerMoveFromStart(r, ev) ==
    IF ev.pointerId # r.g.pointerId \/ r.g.lastPointerPosition = None THEN r
    ELSE IF ~r.g.isDragging THEN r
    ELSE LET deltaX == Sub(PX(ev.pos), PX(r.g.lastPointerPosition))
             deltaY == Sub(PY(ev.pos), PY(r.g.lastPointerPosition))
         IN  [r EXCEPT
                !.m = panBy(r.m, deltaX, deltaY),
                !.g.calls = Append(@, [name |-> "panBy",
                                       args |-> <<deltaX, deltaY>>]),
                !.g.event.defaultPrevented = TRUE]

\* handlePointerMove(event)
handlePointerMove(r, ev) ==
    IF ev.pointerId # r.g.pointerId \/ r.g.lastPointerPosition = None THEN r
    ELSE IF ~r.g.isDragging THEN r
    ELSE LET deltaX == Sub(PX(ev.pos), PX(r.g.lastPointerPosition))
             deltaY == Sub(PY(ev.pos), PY(r.g.lastPointerPosition))
         IN  [r EXCEPT
                !.m = panBy(r.m, deltaX, deltaY),
                !.g.calls = Append(@, [name |-> "panBy",
                                       args |-> <<deltaX, deltaY>>]),
                !.g.lastPointerPosition = ev.pos,
                !.g.event.defaultPrevented = TRUE]

\* handlePointerUp that resets on any pointer
handlePointerUpAnyPointer(r, ev) ==
    [r EXCEPT !.g.isDragging = FALSE,
              !.g.lastPointerPosition = None,
              !.g.pointerId = NoPointer,
              !.g.capture = IF container /\ @ = ev.pointerId
                            THEN NoPointer ELSE @]

\* handlePointerUp that leaves lastPointerPosition in place
handlePointerUpKeepingPosition(r, ev) ==
    IF ev.pointerId # r.g.pointerId THEN r
    ELSE [r EXCEPT !.g.isDragging = FALSE,
                   !.g.pointerId = NoPointer,
                   !.g.capture = IF container /\ @ = ev.pointerId
                                 THEN NoPointer ELSE @]

\* handlePointerUp(event), also registered for pointercancel
handlePointerUp(r, ev) ==
    IF ev.pointerId # r.g.pointerId THEN r
    ELSE [r EXCEPT \* this.manager.setDragging(false)
                   !.g.isDragging = FALSE,
                   !.g.lastPointerPosition = None,
                   !.g.pointerId = NoPointer,
                   !.g.capture = IF container /\ @ = ev.pointerId
                                 THEN NoPointer ELSE @]

\* the zoom delta of a wheel event without the clamp
wheelDeltaUnclamped(ev) ==
    LET normalizedDelta ==
            IF ev.deltaMode = 1 THEN Mul(ev.deltaY, Num(16))
            ELSE IF ev.deltaMode = 2 THEN Mul(ev.deltaY, Num(400))
            ELSE ev.deltaY
    IN  Mul(MathSign(normalizedDelta),
            Mul(MathAbs(normalizedDelta), options.scaleSensitivity))

\* the zoom delta handleWheel computes from a wheel event
wheelDelta(ev) ==
    LET normalizedDelta ==
            IF ev.deltaMode = 1 THEN Mul(ev.deltaY, Num(16))
            ELSE IF ev.deltaMode = 2 THEN Mul(ev.deltaY, Num(400))
            ELSE ev.deltaY
    IN  Mul(MathSign(normalizedDelta),
            MathMin(Mul(MathAbs(normalizedDelta), options.scaleSensitivity),
                    Q(1, 10)))

\* handleWheel(event)
handleWheel(r, ev) ==
    IF ~options.enableZoom THEN r
    ELSE LET r1 == [r EXCEPT !.g.event = [defaultPrevented |-> TRUE,
                                          propagationStopped |-> TRUE]]
             center == Point(Sub(PX(ev.pos), PX(RectOrigin)),
                             Sub(PY(ev.pos), PY(RectOrigin)))
             delta == wheelDelta(ev)
         IN  IF ~container THEN r1
             ELSE IF Gt(MathAbs(ev.deltaY), Num(0))
             THEN [r1 EXCEPT
                     !.m = zoomBy(r.m, Neg(delta), center),
                     !.g.calls = Append(@, [name |-> "zoomBy",
                                            args |-> <<Neg(delta), center>>])]
             ELSE r1

\* getTouchDistance(touches) and getTouchCenter(touches)
getTouchDistance(touches) ==
    LET dx == Sub(PX(touches[1]), PX(touches[2]))
        dy == Sub(PY(touches[1]), PY(touches[2]))
    IN  MathSqrt(Add(Mul(dx, dx), Mul(dy, dy)))

getTouchCenter(touches) ==
    Point(Div(Add(PX(touches[1]), PX(touches[2])), Num(2)),
          Div(Add(PY(touches[1]), PY(touches[2])), Num(2)))

\* handleTouchStart(event) with event.touches = touches
handleTouchStart(r, touches) ==
    IF Len(touches) = 2
    THEN [r EXCEPT !.g.event.defaultPrevented = TRUE,
                   !.g.lastTouchDistance = getTouchDistance(touches)]
    ELSE r

\* handleTouchMove(event) with event.touches = touches
handleTouchMove(r, touches) ==
    IF Len(touches) = 2 /\ r.g.lastTouchDistance # None
    THEN LET r1 == [r EXCEPT !.g.event.defaultPrevented = TRUE]
             distance == getTouchDistance(touches)
             scale == Div(distance, r.g.lastTouchDistance)
             center == getTouchCenter(touches)
             relativeCenter == Point(Sub(PX(center), PX(RectOrigin)),
                                     Sub(PY(center), PY(RectOrigin)))
             newScale == Mul(getViewport(r.m).scale, scale)
         IN  IF ~container THEN r1
             ELSE [r1 EXCEPT
                     !.m = zoomTo(r.m, newScale, relativeCenter),
                     !.g.calls = Append(@, [name |-> "zoomTo",
                                            args |-> <<newScale,
                                                       relativeCenter>>]),
                     !.g.lastTouchDistance = distance]
    ELSE r

\* handleTouchEnd(event), also registered for touchcancel
handleTouchEnd(r, touches) ==
    IF Len(touches) < 2 THEN [r EXCEPT !.g.lastTouchDistance = None] ELSE r

\* the manager's mutable part at the start of a call
Manager == [viewport |-> viewport, transform |-> transform, log |-> <<>>,
            exc |-> FALSE, throwers |-> Throwers, alias |-> held = "alias"]

\* a call named name with arguments args that takes the manager to m
EngineCall(name, args, m) ==
    /\ steps' = steps + 1
    /\ op' = [name |-> name, args |-> args]
    /\ pre' = viewport
    /\ preCallbacks' = callbacks
    /\ viewport' = m.viewport
    /\ transform' = m.transform
    /\ log' = m.log
    /\ raised' = m.exc
    /\ held' = IF held = "alias" /\ ~m.alias THEN "copy" ELSE held

\* a call made on the engine alone
Call(name, args, m) ==
    /\ steps < MaxSteps
    /\ EngineCall(name, args, m)
    /\ UNCHANGED dragVars
    /\ UNCHANGED gestureVars

Init ==
    /\ viewport = InitialViewport
    /\ \E given \in OptionsInputs : options = ConstructOptions(given)
    /\ container = TRUE
    /\ viewportElement = TRUE
    /\ rect \in RectInputs
    /\ transform = InitialViewport
    /\ callbacks \in InitialCallbacks
    /\ op = [name |-> "constructor", args |-> <<>>]
    /\ pre = InitialViewport
    /\ preCallbacks = <<>>
    /\ log = <<>>
    /\ raised = FALSE
    /\ held = "none"
    /\ steps = 0
    /\ dragState = InitialDragState
    /\ entities = InitialEntities
    /\ localViewport = InitialViewport
    /\ bodyStyle = NoStyle
    /\ event = FreshEvent
    /\ moves = <<>>
    /\ styleAtStart = NoStyle
    /\ gesture = InitialGesture
    /\ panOrigin = <<>>

CallSetViewport ==
    \E partial \in PartialInputs :
        /\ Call("setViewport", <<partial>>, setViewport(Manager, partial))
        /\ UNCHANGED <<options, container, viewportElement, rect, callbacks>>

CallPanBy ==
    \E d \in DeltaInputs :
        /\ Call("panBy", <<PX(d), PY(d)>>, panBy(Manager, PX(d), PY(d)))
        /\ UNCHANGED <<options, container, viewportElement, rect, callbacks>>

CallZoomTo ==
    \E scale \in ScaleInputs, center \in CenterInputs :
        /\ Call("zoomTo", <<scale, center>>, zoomTo(Manager, scale, center))
        /\ UNCHANGED <<options, container, viewportElement, rect, callbacks>>

CallZoomBy ==
    \E scaleDelta \in ScaleDeltaInputs, center \in CenterInputs :
        /\ Call("zoomBy", <<scaleDelta, center>>,
                zoomBy(Manager, scaleDelta, center))
        /\ UNCHANGED <<options, container, viewportElement, rect, callbacks>>

CallCenterOn ==
    \E worldPoint \in WorldPointInputs :
        /\ Call("centerOn", <<worldPoint>>, centerOn(Manager, worldPoint))
        /\ UNCHANGED <<options, container, viewportElement, rect, callbacks>>

CallFit ==
    \E worldBounds \in BoundsInputs, padding \in PaddingInputs :
        /\ Call("fit", <<worldBounds, padding>>,
                fit(Manager, worldBounds, padding))
        /\ UNCHANGED <<options, container, viewportElement, rect, callbacks>>

CallReset ==
    /\ Call("reset", <<>>, reset(Manager))
    /\ UNCHANGED <<options, container, viewportElement, rect, callbacks>>

\* onViewportChange(callback): Set.add
CallOnViewportChange ==
    \E callback \in Listeners :
        /\ Call("onViewportChange", <<callback>>, Manager)
        /\ callbacks' = IF \E i \in 1..Len(callbacks) : callbacks[i] = callback
                        THEN callbacks
                        ELSE Append(callbacks, callback)
        /\ UNCHANGED <<options, container, viewportElement, rect>>

\* the disposer returned by onViewportChange(callback): Set.delete
CallUnsubscribe ==
    \E callback \in Listeners :
        /\ Call("unsubscribe", <<callback>>, Manager)
        /\ callbacks' = SelectSeq(callbacks, LAMBDA c : c # callback)
        /\ UNCHANGED <<options, container, viewportElement, rect>>

\* destroy() that leaves the registered callbacks in place
CallDestroyKeepingCallbacks ==
    /\ Call("destroy", <<>>, Manager)
    /\ container' = FALSE
    /\ viewportElement' = FALSE
    /\ UNCHANGED <<options, rect, callbacks>>

\* destroy(): clears the callbacks, removes the viewport element, drops the
\* container
CallDestroy ==
    /\ Call("destroy", <<>>, Manager)
    /\ callbacks' = <<>>
    /\ container' = FALSE
    /\ viewportElement' = FALSE
    /\ UNCHANGED <<options, rect>>

\* the ResizeObserver callback: the container has a new size and the current
\* transform is applied again
Resize ==
    \E r \in RectInputs :
        /\ container
        /\ r # rect
        /\ rect' = r
        /\ Call("resize", <<>>, applyTransform(Manager))
        /\ UNCHANGED <<options, container, viewportElement, callbacks>>

Next ==
    \/ CallSetViewport
    \/ CallPanBy
    \/ CallZoomTo
    \/ CallZoomBy
    \/ CallCenterOn
    \/ CallFit
    \/ CallReset
    \/ CallOnViewportChange
    \/ CallUnsubscribe
    \/ CallDestroy
    \/ Resize

Spec == Init /\ [][Next]_vars

\* ------------------------------------------------------------------------
\* Clients that keep, and write to, the objects the engine hands out

\* a call named name that leaves the engine as it is, after which the client
\* holds an object of kind h
Query(name, args, h) ==
    /\ steps' = steps + 1
    /\ op' = [name |-> name, args |-> args]
    /\ pre' = viewport
    /\ preCallbacks' = callbacks
    /\ log' = <<>>
    /\ raised' = FALSE
    /\ held' = h
    /\ UNCHANGED <<viewport, transform>>

Hold(name, args, h) ==
    /\ steps < MaxSteps
    /\ Query(name, args, h)
    /\ UNCHANGED dragVars
    /\ UNCHANGED gestureVars

\* getViewport(): a fresh copy of the stored viewport
CallGetViewport ==
    /\ Hold("getViewport", <<>>, "copy")
    /\ UNCHANGED <<options, container, viewportElement, rect, callbacks>>

\* getState(): a copy of the state object whose viewport field is the stored
\* viewport object itself
CallGetState ==
    /\ Hold("getState", <<>>, "alias")
    /\ UNCHANGED <<options, container, viewportElement, rect, callbacks>>

\* a listener keeps the snapshot it was invoked with in the last call, which
\* is the copy made by notifyViewportChange
KeepSnapshot ==
    /\ log # <<>>
    /\ Hold("listener", <<>>, "copy")
    /\ UNCHANGED <<options, container, viewportElement, rect, callbacks>>

\* the client assigns a field of the viewport object it holds
ClientWrite ==
    \E w \in WriteInputs :
        /\ held # "none"
        /\ steps < MaxSteps
        /\ steps' = steps + 1
        /\ op' = [name |-> "write", args |-> w]
        /\ pre' = viewport
        /\ preCallbacks' = callbacks
        /\ log' = <<>>
        /\ raised' = FALSE
        /\ viewport' = IF held = "alias"
                       THEN [viewport EXCEPT ![w[1]] = w[2]]
                       ELSE viewport
        /\ UNCHANGED <<transform, held, options, container, viewportElement,
                       rect, callbacks>>
        /\ UNCHANGED dragVars
        /\ UNCHANGED gestureVars

NextAlias ==
    \/ CallSetViewport
    \/ CallPanBy
    \/ CallZoomTo
    \/ CallZoomBy
    \/ CallCenterOn
    \/ CallFit
    \/ CallReset
    \/ CallOnViewportChange
    \/ CallUnsubscribe
    \/ CallDestroy
    \/ Resize
    \/ CallGetViewport
    \/ CallGetState
    \/ KeepSnapshot
    \/ ClientWrite

SpecAlias == Init /\ [][NextAlias]_vars

\* ------------------------------------------------------------------------
\* The canvas page: the engine with the page's options, the page's listener
\* keeping localViewport, and the drag hook reading localViewport

\* the listener InfiniteCanvas registers (updateViewport), which hands each
\* snapshot to the page's handleViewportChange; it catches its own errors
PageListener == CHOOSE l \in Listeners : l \notin Throwers

\* localViewport after a call that logged the invocations l
Delivered(l) ==
    IF \E i \in 1..Len(l) : l[i].cb = PageListener
    THEN l[CHOOSE i \in 1..Len(l) :
              /\ l[i].cb = PageListener
              /\ \A j \in (i + 1)..Len(l) : l[j].cb # PageListener].snapshot
    ELSE localViewport

\* the hook's state when a handler is called with a new event
Hook == [dragState |-> dragState, entities |-> entities,
         bodyStyle |-> bodyStyle, event |-> FreshEvent, moves |-> <<>>]

\* a call named name on the hook or the page that leaves them as h
PageCall(name, args, h) ==
    /\ steps < MaxDragSteps
    /\ Query(name, args, held)
    /\ dragState' = h.dragState
    /\ entities' = h.entities
    /\ bodyStyle' = h.bodyStyle
    /\ event' = h.event
    /\ moves' = h.moves
    /\ styleAtStart' = IF ~dragState.isDragging /\ h.dragState.isDragging
                       THEN bodyStyle
                       ELSE styleAtStart
    /\ UNCHANGED <<localViewport, gesture, panOrigin>>

\* a call on the page's engine that takes the manager to m; the page's
\* listener stores the snapshot it is given
PageEngineCall(name, args, m) ==
    /\ steps < MaxDragSteps
    /\ EngineCall(name, args, m)
    /\ localViewport' = Delivered(m.log)
    /\ UNCHANGED <<dragState, entities, bodyStyle, event, moves, styleAtStart,
                   gesture, panOrigin>>

InitPage ==
    /\ viewport = InitialViewport
    /\ options = ConstructOptions(PageOptions)
    /\ container = TRUE
    /\ viewportElement = TRUE
    /\ rect \in RectInputs
    /\ transform = InitialViewport
    /\ callbacks = <<PageListener>>
    /\ op = [name |-> "constructor", args |-> <<>>]
    /\ pre = InitialViewport
    /\ preCallbacks = <<>>
    /\ log = <<>>
    /\ raised = FALSE
    /\ held = "none"
    /\ steps = 0
    /\ dragState = InitialDragState
    /\ entities = InitialEntities
    /\ localViewport = InitialViewport
    /\ \E c \in HostCursors : bodyStyle = [NoStyle EXCEPT !.cursor = c]
    /\ event = FreshEvent
    /\ moves = <<>>
    /\ styleAtStart = bodyStyle
    /\ gesture = InitialGesture
    /\ panOrigin = <<>>

\* mousedown or touchstart on the element of entityId
DragStart ==
    \E entityId \in EntityIdInputs, mousePos \in PointerInputs :
        /\ PageCall("handleDragStart", <<entityId, mousePos>>,
                    handleDragStart(Hook, entityId, mousePos, localViewport))
        /\ UNCHANGED <<options, container, viewportElement, rect, callbacks>>

\* mousemove or touchmove on the document
DragMove ==
    \E mousePos \in PointerInputs :
        /\ PageCall("handleDragMove", <<mousePos>>,
                    handleDragMove(Hook, mousePos, localViewport))
        /\ UNCHANGED <<options, container, viewportElement, rect, callbacks>>

\* mouseup, touchend or touchcancel on the document
DragEnd ==
    /\ PageCall("handleDragEnd", <<>>, handleDragEnd(Hook))
    /\ UNCHANGED <<options, container, viewportElement, rect, callbacks>>

\* the page's move callback called with any id
EntityMove ==
    \E entityId \in EntityIdInputs, newPosition \in PositionInputs :
        /\ PageCall("handleEntityMove", <<entityId, newPosition>>,
                    [Hook EXCEPT !.entities =
                        handleEntityMove(entities, entityId, newPosition)])
        /\ UNCHANGED <<options, container, viewportElement, rect, callbacks>>

\* the gesture layer pans: manager.panBy
PagePan ==
    \E d \in PagePanInputs :
        /\ PageEngineCall("panBy", <<PX(d), PY(d)>>,
                          panBy(Manager, PX(d), PY(d)))
        /\ UNCHANGED <<options, container, viewportElement, rect, callbacks>>

\* the gesture layer handles a wheel event: manager.zoomBy(-delta, center)
PageZoom ==
    \E z \in PageZoomInputs :
        /\ PageEngineCall("zoomBy", z, zoomBy(Manager, z[1], z[2]))
        /\ UNCHANGED <<options, container, viewportElement, rect, callbacks>>

NextPage ==
    \/ DragStart
    \/ DragMove
    \/ DragEnd
    \/ EntityMove
    \/ PagePan
    \/ PageZoom

SpecPage == InitPage /\ [][NextPage]_vars

\* ------------------------------------------------------------------------
\* Construction with caller options. An options object is a function from
\* the keys the caller wrote to their values.

\* the top-level option fields other than background, with the constructor's
\* defaults
DefaultTopOptions ==
    [minScale |-> Q(1, 10), maxScale |-> Num(10),
     scaleSensitivity |-> Q(1, 1000), enablePan |-> TRUE,
     enableZoom |-> TRUE, smoothTransitions |-> FALSE,
     transitionDuration |-> Num(150),
     viewportClass |-> "infinite-canvas-viewport",
     containerClass |-> "infinite-canvas-container"]

\* the constructor's defaults of the background option
DefaultBackground ==
    [type |-> "none", color |-> "#e5e7eb", size |-> Num(30),
     dotSize |-> Num(2), className |-> "infinite-canvas-background"]

\* values a caller passes for top-level fields
CallerTopOptions ==
    [minScale |-> Q(1, 2), maxScale |-> Num(4),
     scaleSensitivity |-> Q(1, 500), enablePan |-> FALSE,
     enableZoom |-> FALSE, smoothTransitions |-> TRUE,
     transitionDuration |-> Num(300),
     viewportClass |-> "viewport", containerClass |-> "container"]

\* the top-level fields callers choose among
CallerKeys == {"minScale", "maxScale", "scaleSensitivity", "enablePan",
               "enableZoom", "smoothTransitions", "transitionDuration"}

\* background options callers pass
BackgroundInputs ==
    { [type |-> "dots"],
      [type |-> "grid", size |-> Num(40)],
      [type |-> "dots", color |-> "#000000", size |-> Num(40),
       dotSize |-> Num(3)] }

\* the options objects callers construct the engine with
GivenInputs ==
    { [k \in K |-> CallerTopOptions[k]] : K \in SUBSET CallerKeys }
    \cup
    { [k \in K \cup {"background"} |->
          IF k = "background" THEN b ELSE CallerTopOptions[k]] :
        K \in SUBSET CallerKeys, b \in BackgroundInputs }

\* { ...a, ...b }
Spread(a, b) ==
    [k \in DOMAIN a \cup DOMAIN b |-> IF k \in DOMAIN b THEN b[k] ELSE a[k]]

\* options.background, or undefined spread as nothing
GivenBackground(given) ==
    IF "background" \in DOMAIN given THEN given.background ELSE <<>>

\* this.options as the constructor assigns it
ConstructorOptions(given) ==
    Spread(Spread(DefaultTopOptions,
                  [background |->
                      Spread(DefaultBackground, GivenBackground(given))]),
           given)

\* new DOMCanvasManager(container, given)
Construct ==
    \E given \in GivenInputs :
        /\ steps < MaxSteps
        /\ steps' = steps + 1
        /\ options' = ConstructorOptions(given)
        /\ op' = [name |-> "constructor", args |-> <<given>>]
        /\ viewport' = InitialViewport
        /\ transform' = InitialViewport
        /\ container' = TRUE
        /\ viewportElement' = TRUE
        /\ callbacks' = <<>>
        /\ pre' = InitialViewport
        /\ preCallbacks' = <<>>
        /\ log' = <<>>
        /\ raised' = FALSE
        /\ held' = "none"
        /\ UNCHANGED rect
        /\ UNCHANGED dragVars
        /\ UNCHANGED gestureVars

\* getOptions(): a copy of this.options
CallGetOptions ==
    /\ Hold("getOptions", <<>>, held)
    /\ UNCHANGED <<options, container, viewportElement, rect, callbacks>>

InitOptions ==
    /\ viewport = InitialViewport
    /\ \E given \in GivenInputs :
          /\ options = ConstructorOptions(given)
          /\ op = [name |-> "constructor", args |-> <<given>>]
    /\ container = TRUE
    /\ viewportElement = TRUE
    /\ rect \in RectInputs
    /\ transform = InitialViewport
    /\ callbacks = <<>>
    /\ pre = InitialViewport
    /\ preCallbacks = <<>>
    /\ log = <<>>
    /\ raised = FALSE
    /\ held = "none"
    /\ steps = 0
    /\ dragState = InitialDragState
    /\ entities = InitialEntities
    /\ localViewport = InitialViewport
    /\ bodyStyle = NoStyle
    /\ event = FreshEvent
    /\ moves = <<>>
    /\ styleAtStart = NoStyle
    /\ gesture = InitialGesture
    /\ panOrigin = <<>>

NextOptions ==
    \/ Construct
    \/ CallGetOptions

SpecOptions == InitOptions /\ [][NextOptions]_vars

\* ------------------------------------------------------------------------
\* The gesture handler attached to the container of its engine

\* the handler and the manager when an event listener is called with a new
\* event
Handler == [g |-> [gesture EXCEPT !.event = FreshEvent, !.calls = <<>>],
            m |-> Manager]

\* the event named name with content args, after which handler and manager
\* are r
GestureCall(name, args, r) ==
    /\ steps < MaxSteps
    /\ EngineCall(name, args, r.m)
    /\ gesture' = r.g
    /\ panOrigin' =
          IF gesture.pointerId = NoPointer /\ r.g.pointerId # NoPointer
          THEN <<r.g.lastPointerPosition, viewport>>
          ELSE IF \E i \in 1..Len(r.g.calls) : r.g.calls[i].name # "panBy"
          THEN <<>>
          ELSE panOrigin
    /\ UNCHANGED dragVars

InitGesture ==
    /\ viewport = InitialViewport
    /\ \E given \in GestureOptionInputs : options = ConstructorOptions(given)
    /\ container = TRUE
    /\ viewportElement = TRUE
    /\ rect \in RectInputs
    /\ transform = InitialViewport
    /\ callbacks = <<>>
    /\ op = [name |-> "attach", args |-> <<>>]
    /\ pre = InitialViewport
    /\ preCallbacks = <<>>
    /\ log = <<>>
    /\ raised = FALSE
    /\ held = "none"
    /\ steps = 0
    /\ dragState = InitialDragState
    /\ entities = InitialEntities
    /\ localViewport = InitialViewport
    /\ bodyStyle = NoStyle
    /\ event = FreshEvent
    /\ moves = <<>>
    /\ styleAtStart = NoStyle
    /\ gesture = attach(InitialGesture)
    /\ panOrigin = <<>>

\* pointerdown on the container
PointerDown ==
    \E id \in PointerIdInputs, button \in ButtonInputs,
       pos \in PointerPosInputs :
        LET ev == [pointerId |-> id, button |-> button, pos |-> pos]
        IN  /\ GestureCall("pointerdown", <<ev>>,
                           handlePointerDown(Handler, ev))
    /\ UNCHANGED <<options, container, viewportElement, rect, callbacks>>

\* pointermove on the container
PointerMove ==
    \E id \in PointerIdInputs, pos \in PointerPosInputs :
        LET ev == [pointerId |-> id, pos |-> pos]
        IN  /\ GestureCall("pointermove", <<ev>>,
                           handlePointerMove(Handler, ev))
    /\ UNCHANGED <<options, container, viewportElement, rect, callbacks>>

\* pointerup on the container
PointerUp ==
    \E id \in PointerIdInputs :
        LET ev == [pointerId |-> id]
        IN  /\ GestureCall("pointerup", <<ev>>, handlePointerUp(Handler, ev))
    /\ UNCHANGED <<options, container, viewportElement, rect, callbacks>>

\* pointercancel on the container
PointerCancel ==
    \E id \in PointerIdInputs :
        LET ev == [pointerId |-> id]
        IN  /\ GestureCall("pointercancel", <<ev>>,
                           handlePointerUp(Handler, ev))
    /\ UNCHANGED <<options, container, viewportElement, rect, callbacks>>

\* the container loses the pointer capture without a pointerup or
\* pointercancel: the browser fires lostpointercapture, for which attach()
\* registers no listener
LoseCapture ==
    /\ gesture.capture # NoPointer
    /\ GestureCall("lostpointercapture", <<[pointerId |-> gesture.capture]>>,
                   [Handler EXCEPT !.g.capture = NoPointer])
    /\ UNCHANGED <<options, container, viewportElement, rect, callbacks>>

\* wheel on the container
Wheel ==
    \E ev \in WheelInputs :
        /\ GestureCall("wheel", <<ev>>, handleWheel(Handler, ev))
        /\ UNCHANGED <<options, container, viewportElement, rect, callbacks>>

\* touchstart: one more touch point comes down (at most three), possibly
\* at the client position of a point already down
TouchStart ==
    \E p \in TouchPointInputs :
        LET touches == Append(gesture.touches, p)
        IN  /\ Len(gesture.touches) < 3
            /\ GestureCall("touchstart", <<touches>>,
                  handleTouchStart([Handler EXCEPT !.g.touches = touches],
                                   touches))
    /\ UNCHANGED <<options, container, viewportElement, rect, callbacks>>

\* touchmove: one touch point moves, possibly onto the client position of
\* another
TouchMove ==
    \E i \in 1..Len(gesture.touches), p \in TouchPointInputs :
        LET touches == [gesture.touches EXCEPT ![i] = p]
        IN  /\ p # gesture.touches[i]
            /\ GestureCall("touchmove", <<touches>>,
                  handleTouchMove([Handler EXCEPT !.g.touches = touches],
                                  touches))
    /\ UNCHANGED <<options, container, viewportElement, rect, callbacks>>

\* touchend or touchcancel: one touch point goes up
TouchEnd ==
    \E i \in 1..Len(gesture.touches) :
        LET touches == [j \in 1..(Len(gesture.touches) - 1) |->
                           IF j < i THEN gesture.touches[j]
                           ELSE gesture.touches[j + 1]]
        IN  /\ GestureCall("touchend", <<touches>>,
                  handleTouchEnd([Handler EXCEPT !.g.touches = touches],
                                 touches))
    /\ UNCHANGED <<options, container, viewportElement, rect, callbacks>>

NextGesture ==
    \/ PointerDown
    \/ PointerMove
    \/ PointerUp
    \/ PointerCancel
    \/ LoseCapture
    \/ Wheel
    \/ TouchStart
    \/ TouchMove
    \/ TouchEnd

SpecGesture == InitGesture /\ [][NextGesture]_vars

----------------------------------------------------------------------------
(* Touch contacts on the container. The container has touch-action: none,  *)
(* so the browser dispatches for each change of a contact a pointer event  *)
(* and then a touch event, both to the handler.                            *)

\* the sequence s without its i-th element
RemoveAt(s, i) ==
    [j \in 1..(Len(s) - 1) |-> IF j < i THEN s[j] ELSE s[j + 1]]

\* the handler when the touch event that follows a pointer event is
\* dispatched, with event.touches = touches and the contacts' pointer ids
TouchEventAfter(r, touches, pointers) ==
    [r EXCEPT !.g.event = FreshEvent,
              !.g.touches = touches,
              !.g.pointers = pointers]

\* a finger lands: pointerdown (button 0), then touchstart
FingerDown ==
    \E id \in PointerIdInputs, p \in TouchPointInputs :
        LET ev == [pointerId |-> id, button |-> 0, pos |-> p]
            touches == Append(gesture.touches, p)
            pointers == Append(gesture.pointers, id)
        IN  /\ \A i \in 1..Len(gesture.pointers) : gesture.pointers[i] # id
            /\ GestureCall("fingerdown", <<ev, touches>>,
                  handleTouchStart(
                      TouchEventAfter(handlePointerDown(Handler, ev),
                                      touches, pointers),
                      touches))
    /\ UNCHANGED <<options, container, viewportElement, rect, callbacks>>

\* a finger moves: pointermove, then touchmove
FingerMove ==
    \E i \in 1..Len(gesture.touches), p \in TouchPointInputs :
        LET ev == [pointerId |-> gesture.pointers[i], pos |-> p]
            touches == [gesture.touches EXCEPT ![i] = p]
        IN  /\ p # gesture.touches[i]
            /\ GestureCall("fingermove", <<ev, touches>>,
                  handleTouchMove(
                      TouchEventAfter(handlePointerMove(Handler, ev),
                                      touches, gesture.pointers),
                      touches))
    /\ UNCHANGED <<options, container, viewportElement, rect, callbacks>>

\* a finger lifts: pointerup, then touchend
FingerUp ==
    \E i \in 1..Len(gesture.touches) :
        LET ev == [pointerId |-> gesture.pointers[i]]
            touches == RemoveAt(gesture.touches, i)
        IN  /\ GestureCall("fingerup", <<ev, touches>>,
                  handleTouchEnd(
                      TouchEventAfter(handlePointerUp(Handler, ev),
                                      touches, RemoveAt(gesture.pointers, i)),
                      touches))
    /\ UNCHANGED <<options, container, viewportElement, rect, callbacks>>

NextTouch ==
    \/ FingerDown
    \/ FingerMove
    \/ FingerUp

SpecTouch == InitGesture /\ [][NextTouch]_vars

----------------------------------------------------------------------------
(* attach(), detach() and destroy() in any order, and events dispatched to *)
(* every listener set that is on the container                             *)

\* the listener attach() registers for the event type
Listener(type, r, ev) ==
    CASE type = "pointerdown" -> handlePointerDown(r, ev)
      [] type = "pointermove" -> handlePointerMove(r, ev)
      [] type = "wheel" -> handleWheel(r, ev)

\* the event ev of the given type handed to the listener of each registered
\* set in turn
Dispatch(type, r, ev) ==
    LET after[i \in 0..r.g.registered] ==
            IF i = 0 THEN r ELSE Listener(type, after[i - 1], ev)
    IN  after[r.g.registered]

\* handler.attach()
Attach ==
    /\ GestureCall("attach", <<>>, [Handler EXCEPT !.g = attach(@)])
    /\ UNCHANGED <<options, container, viewportElement, rect, callbacks>>

\* handler.detach()
Detach ==
    /\ GestureCall("detach", <<>>, [Handler EXCEPT !.g = detach(@)])
    /\ UNCHANGED <<options, container, viewportElement, rect, callbacks>>

\* pointerdown on the container element
DispatchPointerDown ==
    \E id \in PointerIdInputs, button \in ButtonInputs,
       pos \in PointerPosInputs :
        LET ev == [pointerId |-> id, button |-> button, pos |-> pos]
        IN  /\ GestureCall("pointerdown", <<ev>>,
                           Dispatch("pointerdown", Handler, ev))
    /\ UNCHANGED <<options, container, viewportElement, rect, callbacks>>

\* pointermove on the container element
DispatchPointerMove ==
    \E id \in PointerIdInputs, pos \in PointerPosInputs :
        LET ev == [pointerId |-> id, pos |-> pos]
        IN  /\ GestureCall("pointermove", <<ev>>,
                           Dispatch("pointermove", Handler, ev))
    /\ UNCHANGED <<options, container, viewportElement, rect, callbacks>>

\* wheel on the container element
DispatchWheel ==
    \E ev \in WheelInputs :
        /\ GestureCall("wheel", <<ev>>, Dispatch("wheel", Handler, ev))
        /\ UNCHANGED <<options, container, viewportElement, rect, callbacks>>

NextAttach ==
    \/ Attach
    \/ Detach
    \/ CallDestroy
    \/ DispatchPointerDown
    \/ DispatchPointerMove
    \/ DispatchWheel

SpecAttach == InitGesture /\ [][NextAttach]_vars

----------------------------------------------------------------------------
(* Vocabulary of the properties *)

\* the mutating operations of the engine
MutatingOps == {"setViewport", "panBy", "zoomTo", "zoomBy", "centerOn",
                "fit", "reset"}

\* clamp(s, minScale, maxScale)
Clamp(s, lo, hi) == IF Lt(s, lo) THEN lo ELSE IF Gt(s, hi) THEN hi ELSE s

\* the snapshots listener l received during the last call, in order
Received(l) ==
    LET mine == SelectSeq(log, LAMBDA e : e.cb = l)
    IN  [i \in 1..Len(mine) |-> mine[i].snapshot]

\* the listeners registered when the last call was made
RegisteredAtCall == {preCallbacks[i] : i \in 1..Len(preCallbacks)}

\* the screen point the last zoomTo call anchored: its center argument, or
\* the container centre when it was omitted
AnchorOfLastZoomTo ==
    IF op.args[2] = None THEN RectCenter ELSE op.args[2]

----------------------------------------------------------------------------
(* Properties *)

\* C1: after any sequence of engine operations, the stored scale satisfies
\* minScale <= scale <= maxScale.
C1_ScaleWithinBounds ==
    /\ Le(options.minScale, viewport.scale)
    /\ Le(viewport.scale, options.maxScale)

\* C2: zoom anchor invariance: the world point that was under center before
\* zoomTo(newScale, center) is still at center afterwards, whatever scale is
\* finally stored.
C2_ZoomAnchorInvariant ==
    (op.name = "zoomTo" /\ (op.args[2] # None \/ container)) =>
        LET c == AnchorOfLastZoomTo
            w == screenToWorld(pre, c)
        IN  worldToScreen(viewport, w) = c

\* C3: every distinct mutation is notified: when a mutating operation on a
\* live engine leaves a viewport that differs from the one before the call,
\* every listener registered at the call was invoked and the last snapshot
\* it received equals the state after the call.
C3_DistinctMutationNotified ==
    (op.name \in MutatingOps /\ container /\ viewport # pre) =>
        \A l \in RegisteredAtCall :
            /\ Received(l) # <<>>
            /\ Received(l)[Len(Received(l))] = viewport

\* C4: no notification on a no-op: when a mutating operation leaves the
\* viewport equal to the one before the call in all three fields, no
\* listener was invoked during the call.
C4_NoNotificationOnNoOp ==
    (op.name \in MutatingOps /\ viewport = pre) => log = <<>>

\* C5: a direct setViewport call whose merged and clamped result differs
\* from the previous state invokes each listener registered at the call
\* exactly once, within the call, with a snapshot equal to the new state.
C5_SetViewportNotifiesEachOnce ==
    (op.name = "setViewport" /\ viewport # pre) =>
        /\ \A l \in RegisteredAtCall : Received(l) = <<viewport>>
        /\ \A i \in 1..Len(log) : log[i].cb \in RegisteredAtCall

\* C5 witness: a setViewport call with two listeners registered whose
\* requested scale was clamped to a different stored scale.
C5_Witness ==
    /\ op.name = "setViewport"
    /\ viewport # pre
    /\ Len(preCallbacks) = 2
    /\ op.args[1].scale # None
    /\ viewport.scale # op.args[1].scale

\* whether the last call was setViewport({scale: s}) with no other field
IsScaleOnly(o) ==
    /\ o.name = "setViewport"
    /\ o.args[1].x = None
    /\ o.args[1].y = None
    /\ o.args[1].scale # None

\* C6: clamping idempotence: setViewport({scale: s}) leaves the stored scale
\* equal to clamp(s, minScale, maxScale) and the offset unchanged; the same
\* call made again immediately changes nothing and invokes no listener.
C6_ClampingIdempotent ==
    [][IsScaleOnly(op') =>
          /\ viewport'.scale =
                Clamp(op'.args[1].scale, options.minScale, options.maxScale)
          /\ viewport'.x = viewport.x
          /\ viewport'.y = viewport.y
          /\ (IsScaleOnly(op) /\ op.args = op'.args) =>
                (viewport' = viewport /\ log' = <<>>)]_vars

\* points at which the conversions are evaluated
ProbePoints == {Point(Num(0), Num(0)), Point(Num(100), Num(50)),
                Point(Num(-30), Num(7))}

\* C7: round trip: in every reachable viewport state and for every point p,
\* worldToScreen(screenToWorld(p)) = p and
\* screenToWorld(worldToScreen(p)) = p.
C7_RoundTrip ==
    \A p \in ProbePoints :
        /\ worldToScreen(viewport, screenToWorld(viewport, p)) = p
        /\ screenToWorld(viewport, worldToScreen(viewport, p)) = p

\* C8: limit no-op: zoomBy(delta, center) with the scale at maxScale and
\* delta > 0, or at minScale and delta < 0, leaves x, y and scale unchanged
\* and invokes no listener.
C8_ZoomByLimitNoOp ==
    (/\ op.name = "zoomBy"
     /\ \/ pre.scale = options.maxScale /\ Gt(op.args[1], Num(0))
        \/ pre.scale = options.minScale /\ Lt(op.args[1], Num(0)))
    => (viewport = pre /\ log = <<>>)

\* C8 witness: a zoomBy with positive delta and an explicit center, made at
\* maxScale away from the origin while a listener is registered.
C8_Witness ==
    /\ op.name = "zoomBy"
    /\ pre.scale = options.maxScale
    /\ Gt(op.args[1], Num(0))
    /\ op.args[2] # None
    /\ pre.x # Num(0)
    /\ preCallbacks # <<>>

\* whether the last fit call was given zero-width or zero-height bounds, or
\* was made while the container had zero width or zero height
FitGeometryInvalid ==
    \/ op.args[1].maxX = op.args[1].minX
    \/ op.args[1].maxY = op.args[1].minY
    \/ IsZero(rect.width)
    \/ IsZero(rect.height)

\* C9: invalid geometry is skipped: fit with zero-width or zero-height
\* bounds, or in a container of zero width or height, leaves x, y and scale
\* as they were and invokes no listener.
C9_FitSkipsInvalidGeometry ==
    (op.name = "fit" /\ FitGeometryInvalid) => (viewport = pre /\ log = <<>>)

\* C10: for bounds of positive width bw and height bh in a container W x H
\* with W > 2*padding and H > 2*padding, after fit(bounds, padding) the
\* stored scale is clamp(min((W-2*padding)/bw, (H-2*padding)/bh), minScale,
\* maxScale) and the centroid of the bounds is at the screen point
\* (W/2, H/2).
C10_FitScalesAndCentres ==
    LET b  == op.args[1]
        pd == op.args[2]
        bw == Sub(b.maxX, b.minX)
        bh == Sub(b.maxY, b.minY)
        aw == Sub(rect.width, Mul(Num(2), pd))
        ah == Sub(rect.height, Mul(Num(2), pd))
        centroid == Point(Div(Add(b.minX, b.maxX), Num(2)),
                          Div(Add(b.minY, b.maxY), Num(2)))
    IN  (/\ op.name = "fit"
         /\ container
         /\ Gt(bw, Num(0)) /\ Gt(bh, Num(0))
         /\ Gt(aw, Num(0)) /\ Gt(ah, Num(0)))
        => /\ viewport.scale =
                Clamp(MathMin(Div(aw, bw), Div(ah, bh)),
                      options.minScale, options.maxScale)
           /\ worldToScreen(viewport, centroid) = RectCenter

\* C11: operations after destroy() are no-ops: a mutating operation invoked
\* on a destroyed engine leaves x, y and scale as they were and invokes no
\* listener.
C11_NoOpAfterDestroy ==
    (op.name \in MutatingOps /\ ~container) => (viewport = pre /\ log = <<>>)

\* the manager the last call started from, with listeners that never throw
FaultFreeManager ==
    [viewport |-> pre, transform |-> pre, log |-> <<>>, exc |-> FALSE,
     throwers |-> {}, alias |-> FALSE]

\* the manager that mutating operation o leaves when started from m
Apply(o, m) ==
    CASE o.name = "setViewport" -> setViewport(m, o.args[1])
      [] o.name = "panBy"       -> panBy(m, o.args[1], o.args[2])
      [] o.name = "zoomTo"      -> zoomTo(m, o.args[1], o.args[2])
      [] o.name = "zoomBy"      -> zoomBy(m, o.args[1], o.args[2])
      [] o.name = "centerOn"    -> centerOn(m, o.args[1])
      [] o.name = "fit"         -> fit(m, o.args[1], o.args[2])
      [] o.name = "reset"       -> reset(m)

\* C12: listener fault isolation: when a listener throws while being
\* notified, every registered listener is still invoked in each notification
\* of that call, the exception does not reach the caller, and the stored
\* viewport is the one the operation produces when no listener throws.
C12_ListenerFaultIsolated ==
    (op.name \in MutatingOps /\ \E i \in 1..Len(log) : log[i].threw) =>
        /\ Len(log) % Len(preCallbacks) = 0
        /\ \A i \in 1..Len(log) :
              log[i].cb = preCallbacks[((i - 1) % Len(preCallbacks)) + 1]
        /\ ~raised
        /\ viewport = Apply(op, FaultFreeManager).viewport

\* C12 witness: a fit that notified twice while the listener registered
\* first throws and a second listener follows it.
C12_Witness ==
    /\ op.name = "fit"
    /\ Len(preCallbacks) = 2
    /\ preCallbacks[1] \in Throwers
    /\ Len(log) = 4
    /\ log[1].threw
    /\ log[4].snapshot # log[1].snapshot

\* C13: listeners only see clamped state: every snapshot passed to a
\* listener satisfies minScale <= scale <= maxScale.
C13_SnapshotsClamped ==
    \A i \in 1..Len(log) :
        /\ Le(options.minScale, log[i].snapshot.scale)
        /\ Le(log[i].snapshot.scale, options.maxScale)

\* the listeners currently registered
Registered == {callbacks[i] : i \in 1..Len(callbacks)}

\* C14: a listener is invoked only while registered: every listener invoked
\* during a call was registered when the call was made, a listener whose
\* disposer has run is no longer registered, and after destroy() none is.
C14_InvokedOnlyWhileRegistered ==
    /\ \A i \in 1..Len(log) : log[i].cb \in RegisteredAtCall
    /\ op.name = "unsubscribe" => op.args[1] \notin Registered
    /\ op.name = "destroy" => Registered = {}

\* C14 witness: the disposer of a registered listener has run while another
\* listener stays registered.
C14_Witness ==
    /\ op.name = "unsubscribe"
    /\ op.args[1] \in RegisteredAtCall
    /\ Registered # {}

\* C16: pan linearity: panBy(a) directly followed by panBy(b) leaves the x
\* and y that one panBy(a + b) from the same start leaves, and no panBy
\* changes the scale.
C16_PanLinear ==
    [][op'.name = "panBy" =>
          /\ viewport'.scale = viewport.scale
          /\ op.name = "panBy" =>
                /\ viewport'.x = Add(pre.x, Add(op.args[1], op'.args[1]))
                /\ viewport'.y = Add(pre.y, Add(op.args[2], op'.args[2]))]_vars

\* C16 witness: panBy(10, -5) then panBy(-3, 7) from the initial viewport.
C16_Witness ==
    /\ op = [name |-> "panBy", args |-> <<Num(-3), Num(7)>>]
    /\ pre = [x |-> Num(10), y |-> Num(-5), scale |-> Num(1)]
    /\ viewport = [x |-> Num(7), y |-> Num(2), scale |-> Num(1)]

\* C17: centre-on postcondition: after centerOn(w) in a container of size
\* W x H the scale is the one before the call and worldToScreen(w) is
\* (W/2, H/2).
C17_CenterOnCentres ==
    (op.name = "centerOn" /\ container) =>
        /\ viewport.scale = pre.scale
        /\ worldToScreen(viewport, op.args[1]) = RectCenter

\* C15: the viewport changes only through engine operations: a write to an
\* object the engine handed out (the result of getViewport(), the result of
\* getState(), a listener's snapshot) leaves what getViewport() returns as it
\* was.
C15_HandedOutObjectsDetached ==
    op.name = "write" => getViewport(Manager) = pre

\* the ids of the page's entities
EntityIds == {entities[i].id : i \in 1..Len(entities)}

\* C18: single drag session: while a drag session is active a handleDragStart
\* for any existing element is a no-op: draggedEntityId, dragOffset and
\* startPosition stay as recorded.
C18_SingleDragSession ==
    [][(dragState.isDragging /\ op'.name = "handleDragStart"
            /\ op'.args[1] \in EntityIds)
          => dragState' = dragState]_vars

\* C19: drag follows the live viewport: a handleDragMove during an active
\* drag reports to onEntityMove, once, the dragged id with the world position
\* screenToWorld(pointer - recordedOffset) under the engine's viewport at
\* that move.
C19_DragFollowsLiveViewport ==
    (op.name = "handleDragMove" /\ dragState.isDragging) =>
        moves = << [id |-> dragState.draggedEntityId,
                    position |->
                        screenToWorld(viewport,
                            Point(Sub(PX(op.args[1]), PX(dragState.dragOffset)),
                                  Sub(PY(op.args[1]), PY(dragState.dragOffset))))] >>

\* C20: missing target is a no-op: handleDragStart with an id that is not in
\* entities leaves the drag session as it was (inactive when it was
\* inactive), the event unsuppressed and the body style untouched, and
\* invokes no onEntityMove; handleEntityMove with an unknown id leaves the
\* entity list unchanged; neither throws.
C20_MissingTargetNoOp ==
    [][/\ (op'.name = "handleDragStart" /\ op'.args[1] \notin EntityIds) =>
            /\ dragState' = dragState
            /\ ~event'.defaultPrevented
            /\ ~event'.propagationStopped
            /\ bodyStyle' = bodyStyle
            /\ moves' = <<>>
            /\ entities' = entities
            /\ ~raised'
       /\ (op'.name = "handleEntityMove" /\ op'.args[1] \notin EntityIds) =>
            /\ entities' = entities
            /\ ~raised']_vars

\* C20 witness: handleDragStart with the unknown id "z" was called while no
\* drag was active, after an entity had been moved.
C20_Witness ==
    /\ op.name = "handleDragStart"
    /\ op.args[1] \notin EntityIds
    /\ ~dragState.isDragging
    /\ ~event.defaultPrevented
    /\ bodyStyle = NoStyle
    /\ entities # InitialEntities

\* C21: without an active drag session handleDragMove and handleDragEnd have
\* no effect: onEntityMove is not invoked, the drag state, the entities and
\* the body style stay as they were, and the event is not suppressed.
C21_InactiveMoveEndNoOp ==
    [][(~dragState.isDragging
            /\ op'.name \in {"handleDragMove", "handleDragEnd"}) =>
          /\ moves' = <<>>
          /\ dragState' = dragState
          /\ entities' = entities
          /\ bodyStyle' = bodyStyle
          /\ ~event'.defaultPrevented]_vars

\* C21 witness: handleDragEnd was called with no session active, on a page
\* whose body cursor was set by the host (the end of an active session would
\* have cleared it).
C21_Witness ==
    /\ op.name = "handleDragEnd"
    /\ ~dragState.isDragging
    /\ bodyStyle.cursor = "wait"

\* the drag operations of the hook
DragOps == {"handleDragStart", "handleDragMove", "handleDragEnd"}

\* C22: frame of the drag subsystem: no drag operation changes the viewport
\* (the engine's or the page's copy), every move it requests names the
\* dragged entity, and every other entity keeps its position.
C22_DragFrame ==
    [][op'.name \in DragOps =>
          /\ viewport' = viewport
          /\ localViewport' = localViewport
          /\ \A i \in 1..Len(moves') :
                moves'[i].id = dragState.draggedEntityId
          /\ Len(entities') = Len(entities)
          /\ \A i \in 1..Len(entities) :
                entities[i].id # dragState.draggedEntityId =>
                    entities'[i] = entities[i]]_vars

\* C22 witness: a move of the dragged entity "b" changed its position while
\* entity "a" is where it started.
C22_Witness ==
    /\ op.name = "handleDragMove"
    /\ dragState.draggedEntityId = "b"
    /\ moves # <<>>
    /\ entities[2].position # InitialEntities[2].position
    /\ entities[1] = InitialEntities[1]

\* C23: endDrag restores the global overrides: after handleDragEnd on an
\* active session document.body's userSelect, webkitUserSelect and cursor
\* hold the values they had just before the handleDragStart that opened the
\* session, and the session state is cleared.
C23_EndRestoresOverrides ==
    [][(dragState.isDragging /\ op'.name = "handleDragEnd") =>
          /\ bodyStyle' = styleAtStart
          /\ dragState' = InitialDragState]_vars

\* C24: defaults for absent options: every top-level field and every
\* background field the caller leaves absent when constructing the engine
\* holds its default in the effective configuration, and construction does
\* not fail.
C24_AbsentOptionsDefaulted ==
    op.name = "constructor" =>
        LET given == op.args[1]
        IN  /\ \A k \in DOMAIN DefaultTopOptions \ DOMAIN given :
                  k \in DOMAIN options /\ options[k] = DefaultTopOptions[k]
            /\ "background" \in DOMAIN options
            /\ \A f \in DOMAIN DefaultBackground
                            \ DOMAIN GivenBackground(given) :
                  /\ f \in DOMAIN options.background
                  /\ options.background[f] = DefaultBackground[f]
            /\ ~raised

\* the gesture session of the handler: pointerId, lastPointerPosition and the
\* manager's isDragging
Session(g) == <<g.pointerId, g.lastPointerPosition, g.isDragging>>

\* C25: capture loss resets the pan: when the container loses the pointer
\* capture without a pointer-up or pointer-cancel reaching the handler, the
\* handler is Idle (pointerId null, lastPointerPosition null, manager
\* isDragging false).
C25_CaptureLossResetsPan ==
    [][op'.name = "lostpointercapture" =>
          Session(gesture') = <<NoPointer, None, FALSE>>]_vars

\* C26: pinch distance is live only during a two-touch session:
\* lastTouchDistance is non-null only if exactly two touch points are down.
C26_PinchDistanceOnlyWithTwoTouches ==
    gesture.lastTouchDistance # None => Len(gesture.touches) = 2

\* C27: pan start guard: a pointer-down with button 0 while pointerId is null
\* and panning is enabled records the pointer id and position, sets
\* isDragging and captures the pointer; any other pointer-down leaves the
\* gesture session unchanged; no pointer-down changes the viewport.
C27_PanStartGuard ==
    [][op'.name = "pointerdown" =>
          LET ev == op'.args[1]
          IN  /\ viewport' = viewport
              /\ IF /\ ev.button = 0
                    /\ gesture.pointerId = NoPointer
                    /\ options.enablePan
                 THEN /\ Session(gesture') = <<ev.pointerId, ev.pos, TRUE>>
                      /\ gesture'.capture = ev.pointerId
                 ELSE /\ Session(gesture') = Session(gesture)
                      /\ gesture'.capture = gesture.capture]_vars

\* C27 witness: a primary-button pointer-down, not the first event the handler
\* received, started a pan: its pointer is tracked and captured.
C27_Witness ==
    /\ op.name = "pointerdown"
    /\ op.args[1].button = 0
    /\ Session(gesture) = <<op.args[1].pointerId, op.args[1].pos, TRUE>>
    /\ gesture.capture = op.args[1].pointerId
    /\ steps >= 2

\* C28: uncaptured pointers are ignored: a pointer-move, pointer-up or
\* pointer-cancel whose pointerId differs from the tracked one (any such
\* event while Idle included) changes neither the viewport nor the gesture
\* session.
C28_UncapturedPointersIgnored ==
    [][(/\ op'.name \in {"pointermove", "pointerup", "pointercancel"}
        /\ op'.args[1].pointerId # gesture.pointerId) =>
          /\ viewport' = viewport
          /\ Session(gesture') = Session(gesture)
          /\ gesture'.capture = gesture.capture]_vars

\* C28 witness: during a pan a pointer-up of another pointer arrived and the
\* tracked pointer is still tracked.
C28_Witness ==
    /\ op.name = "pointerup"
    /\ gesture.pointerId # NoPointer
    /\ op.args[1].pointerId # gesture.pointerId
    /\ gesture.isDragging
    /\ gesture.lastPointerPosition # None

\* C29: wheel never scrolls the page: every wheel event with non-zero
\* vertical delta, in every configuration, has its default action prevented
\* and is handled as a zoom gesture (one zoomBy call).
C29_WheelNeverScrolls ==
    [][(op'.name = "wheel" /\ ~IsZero(op'.args[1].deltaY)) =>
          /\ gesture'.event.defaultPrevented
          /\ Len(gesture'.calls) = 1
          /\ gesture'.calls[1].name = "zoomBy"]_vars

\* the multiplier of a wheel deltaMode: 1 for pixel, 16 for line, 400 for
\* page
ModeMultiplier(deltaMode) ==
    CASE deltaMode = 1 -> Num(16)
      [] deltaMode = 2 -> Num(400)
      [] OTHER -> Num(1)

\* the zoom delta the wheel event ev is to pass to zoomBy: magnitude
\* min(|d*m| * scaleSensitivity, 0.1), sign opposite to d
ExpectedWheelDelta(ev) ==
    LET magnitude ==
            MathMin(Mul(MathAbs(Mul(ev.deltaY, ModeMultiplier(ev.deltaMode))),
                        options.scaleSensitivity),
                    Q(1, 10))
    IN  IF Gt(ev.deltaY, Num(0)) THEN Neg(magnitude) ELSE magnitude

\* the wheel event ev with no horizontal delta
WithoutDeltaX(ev) == [ev EXCEPT !.deltaX = Num(0)]

\* C30: wheel delta normalization and clamp: the delta a wheel event passes
\* to zoomBy has magnitude min(|d*m| * scaleSensitivity, 0.1) and the sign
\* opposite to d; one wheel event changes the scale by a factor within
\* [0.9, 1.1]; deltaX does not influence the result; an event with zero
\* vertical delta leaves the viewport unchanged.
C30_WheelDeltaNormalized ==
    [][op'.name = "wheel" =>
          /\ \A i \in 1..Len(gesture'.calls) :
                /\ gesture'.calls[i].name = "zoomBy"
                /\ gesture'.calls[i].args[1] = ExpectedWheelDelta(op'.args[1])
          /\ (options.enableZoom /\ ~IsZero(op'.args[1].deltaY)) =>
                Len(gesture'.calls) = 1
          /\ \/ viewport'.scale = viewport.scale
             \/ /\ Le(Mul(Q(9, 10), viewport.scale), viewport'.scale)
                /\ Le(viewport'.scale, Mul(Q(11, 10), viewport.scale))
          /\ viewport' =
                handleWheel(Handler, WithoutDeltaX(op'.args[1])).m.viewport
          /\ IsZero(op'.args[1].deltaY) => viewport' = viewport]_vars

\* C30 witness: a wheel event of 200 pixels down with a horizontal delta was
\* clamped to a zoom delta of -0.1 and took the scale from 1 to 0.9.
C30_Witness ==
    /\ op.name = "wheel"
    /\ op.args[1].deltaY = Num(200)
    /\ ~IsZero(op.args[1].deltaX)
    /\ Len(gesture.calls) = 1
    /\ gesture.calls[1].args[1] = Q(-1, 10)
    /\ pre.scale = Num(1)
    /\ viewport.scale = Q(9, 10)

\* x, y and scale of the stored viewport are finite numbers
ViewportFinite ==
    /\ IsFinite(viewport.x)
    /\ IsFinite(viewport.y)
    /\ IsFinite(viewport.scale)

\* C31: viewport state stays finite: after any sequence of engine operations
\* with finite arguments and any sequence of gesture events (a pinch whose
\* two touch points coincide included), x, y and scale are finite numbers.
C31_ViewportStaysFinite == ViewportFinite

\* C32: the drag subsystem's viewport copy tracks the engine: after an engine
\* mutation has returned and its notifications have been delivered, the
\* viewport the page passes to useDragSystem equals the engine's
\* getViewport().
C32_DragViewportTracksEngine == localViewport = getViewport(Manager)

\* C33: zoom disabled means no gesture zooms: when enableZoom is false, no
\* wheel or touch event handled by the gesture layer changes the stored
\* scale.
C33_ZoomDisabledNoGestureZoom ==
    [][(/\ ~options.enableZoom
        /\ op'.name \in {"wheel", "touchstart", "touchmove", "touchend"}) =>
          viewport'.scale = viewport.scale]_vars

\* a pinch is active: two touch points are down and lastTouchDistance is set
PinchActive ==
    Len(gesture.touches) = 2 /\ gesture.lastTouchDistance # None

\* C34: pan and pinch are mutually exclusive: while a pinch is active, the
\* pointer-move events produced by its touch points do not call panBy.
C34_NoPanDuringPinch ==
    [][(PinchActive /\ op'.name = "fingermove") =>
          \A i \in 1..Len(gesture'.calls) :
              gesture'.calls[i].name # "panBy"]_vars

\* pointerId, lastPointerPosition and the manager's isDragging are all empty
\* or all set
SessionConsistent(g) ==
    /\ (g.pointerId = NoPointer) <=> (g.lastPointerPosition = None)
    /\ (g.pointerId = NoPointer) <=> ~g.isDragging

\* C35: gesture session consistency: in every reachable state of the gesture
\* handler pointerId is null if and only if lastPointerPosition is null if
\* and only if the manager's isDragging is false; after a pointer-up or
\* pointer-cancel from the tracked pointer all three are empty.
C35_SessionConsistency ==
    [][/\ SessionConsistent(gesture)
       /\ SessionConsistent(gesture')
       /\ (/\ op'.name \in {"pointerup", "pointercancel"}
           /\ op'.args[1].pointerId = gesture.pointerId) =>
             Session(gesture') = <<NoPointer, None, FALSE>>]_vars

\* C35 witness: a pan was started and a pointer-up ended it: the session is
\* empty after a pointer-up, and the pan that ended is on record.
C35_Witness ==
    /\ op.name = "pointerup"
    /\ panOrigin # <<>>
    /\ Session(gesture) = <<NoPointer, None, FALSE>>
    /\ gesture.capture = NoPointer
    /\ steps = 2

\* C36: pan displacement equals pointer displacement: over one pan gesture
\* (pointer-down at p0, moves of the tracked pointer, the last at pn, then
\* pointer-up) with no other mutation interleaved, after every move and
\* after the pointer-up the offset is the offset at the pointer-down plus
\* (pn - p0) and the scale is the scale at the pointer-down.
C36_PanDisplacement ==
    [][(/\ panOrigin # <<>>
        /\ panOrigin' # <<>>
        /\ op'.name \in {"pointermove", "pointerup", "pointercancel"}
        /\ op'.args[1].pointerId = gesture.pointerId) =>
          LET p0 == panOrigin[1]
              v0 == panOrigin[2]
              pn == IF op'.name = "pointermove" THEN op'.args[1].pos
                    ELSE gesture.lastPointerPosition
          IN  /\ viewport'.x = Add(v0.x, Sub(PX(pn), PX(p0)))
              /\ viewport'.y = Add(v0.y, Sub(PY(pn), PY(p0)))
              /\ viewport'.scale = v0.scale]_vars

\* C36 witness: pointer-down at (100,100), one move to (120,90), pointer-up:
\* the offset went from (0,0) to (20,-10).
C36_Witness ==
    /\ op.name = "pointerup"
    /\ steps = 3
    /\ panOrigin = <<Point(Num(100), Num(100)), InitialViewport>>
    /\ gesture.pointerId = NoPointer
    /\ viewport = [x |-> Num(20), y |-> Num(-10), scale |-> Num(1)]

\* C37: fit is observed as one change: one call to fit(bounds, padding)
\* invokes each registered listener at most once, and no listener receives
\* a snapshot that has the new scale but is not centred on the centroid of
\* the bounds.
C37_FitObservedAsOneChange ==
    op.name = "fit" =>
        LET b == op.args[1]
            centroid == Point(Div(Add(b.minX, b.maxX), Num(2)),
                              Div(Add(b.minY, b.maxY), Num(2)))
        IN  \A l \in Listeners :
                /\ Len(Received(l)) <= 1
                /\ \A i \in 1..Len(Received(l)) :
                      Received(l)[i].scale = viewport.scale =>
                          worldToScreen(Received(l)[i], centroid) = RectCenter

\* C38: subscriptions are independent: when onViewportChange(f) is called
\* while f is already subscribed and a disposer for f is called next, the
\* other subscription of f stays registered; a disposer called again has no
\* further effect.
C38_SubscriptionsIndependent ==
    [][op'.name = "unsubscribe" =>
          /\ (/\ op.name = "onViewportChange"
              /\ op.args[1] = op'.args[1]
              /\ op.args[1] \in RegisteredAtCall) =>
                 \E i \in 1..Len(callbacks') : callbacks'[i] = op'.args[1]
          /\ (op.name = "unsubscribe" /\ op.args[1] = op'.args[1]) =>
                 callbacks' = callbacks]_vars

\* C39: detach is complete: once detach() has returned no listener set of
\* an earlier attach() is on the container, and an event dispatched next
\* causes no engine call.
C39_DetachComplete ==
    [][/\ op'.name = "detach" => gesture'.registered = 0
       /\ (/\ op.name = "detach"
           /\ op'.name \in {"pointerdown", "pointermove", "wheel"}) =>
              gesture'.calls = <<>>]_vars

====
